---- MODULE Spec2Model ----
(***************************************************************************)
(* A model of backend/vector_store.py: the SupabaseVectorStore gateway.    *)
(*                                                                         *)
(* The caller constructs a gateway and then calls add_embeddings,          *)
(* search_similar and delete_embeddings on it, one call at a time (the     *)
(* module is synchronous).  Each call is one action: the whole handler,    *)
(* from its validation to the exception or value it ends with.  The remote *)
(* service is the environment: every remote request is answered by a       *)
(* response the action draws from Responses.                               *)
(*                                                                         *)
(* Python values are records [type, val].  A str is a sequence of          *)
(* one-character strings, a dict is the sequence of its <<key, value>>     *)
(* pairs in insertion order, an exception message is a sequence of tokens. *)
(***************************************************************************)
EXTENDS Integers, Sequences, FiniteSets, TLC

\* gateway  the gateway object the caller holds: <<>> (none yet) or <<self>>
\* probed   whether the last construction sent its probe and the remote side
\*          answered it without raising
\* pc       the caller: "idle", or "returned" (looking at what `last` ended with)
\* last     the call just made: its name, its arguments and its Result
VARIABLES gateway, probed, pc, last

vars == <<gateway, probed, pc, last>>

(***************************************************************************)
(* Bounds of the model.                                                    *)
(***************************************************************************)
\* the longest embeddings, contents and metadata list a caller passes
MaxItems == 2
\* the longest title and artist the id derivation is run on (SpecId)
MaxStrLen == 3

(***************************************************************************)
(* Python values.                                                          *)
(***************************************************************************)
None == [type |-> "NoneType", val |-> <<>>]

Str(s) == [type |-> "str", val |-> s]

PyInt(n) == [type |-> "int", val |-> <<n>>]

NdArray(v) == [type |-> "ndarray", val |-> v]

List(v) == [type |-> "list", val |-> v]

Dict(pairs) == [type |-> "dict", val |-> pairs]

\* bool(v) for the values tested with `not v` / `if v`
Truthy(v) ==
    CASE v.type = "NoneType" -> FALSE
      [] v.type = "int" -> v.val[1] # 0
      [] OTHER -> v.val # <<>>

\* isinstance(v, np.ndarray)
IsNdArray(v) == v.type = "ndarray"

\* isinstance(v, str)
IsStr(v) == v.type = "str"

\* embedding.tolist(): the plain list of the array's components
ToList(embedding) == List(embedding.val)

(***************************************************************************)
(* dict: key in d, d.get(key, default), d[key] = value                     *)
(***************************************************************************)
Keys(d) == {d.val[k][1] : k \in 1..Len(d.val)}

HasKey(d, key) == key \in Keys(d)

DictGet(d, key, default) ==
    IF HasKey(d, key)
    THEN LET k == CHOOSE k \in 1..Len(d.val) : d.val[k][1] = key IN d.val[k][2]
    ELSE default

DictSet(d, key, value) ==
    IF HasKey(d, key)
    THEN Dict([k \in 1..Len(d.val) |->
                 IF d.val[k][1] = key THEN <<key, value>> ELSE d.val[k]])
    ELSE Dict(Append(d.val, <<key, value>>))

(***************************************************************************)
(* str: the characters the model's strings are made of.                    *)
(***************************************************************************)
Chars == {"a", "B", "_", "!"}

\* c.isalnum()
IsAlnum(c) == c \in {"a", "B", "b"}

\* c.lower()
LowerChar(c) == IF c = "B" THEN "b" ELSE c

\* s.lower()
Lower(s) == [k \in 1..Len(s) |-> LowerChar(s[k])]

\* ''.join(c if c.isalnum() else '_' for c in s)
Underscored(s) == [k \in 1..Len(s) |-> IF IsAlnum(s[k]) THEN s[k] ELSE "_"]

\* s.split('_'): `done` holds the finished pieces, `piece` the one being read
RECURSIVE Split(_, _, _, _)
Split(s, k, done, piece) ==
    IF k > Len(s) THEN Append(done, piece)
    ELSE IF s[k] = "_" THEN Split(s, k + 1, Append(done, piece), <<>>)
    ELSE Split(s, k + 1, done, Append(piece, s[k]))

\* filter(None, pieces): the non-empty pieces
FilterNonEmpty(pieces) == SelectSeq(pieces, LAMBDA p : p # <<>>)

\* '_'.join(pieces)
RECURSIVE Join(_, _)
Join(pieces, k) ==
    IF k > Len(pieces) THEN <<>>
    ELSE IF k = Len(pieces) THEN pieces[k]
    ELSE pieces[k] \o <<"_">> \o Join(pieces, k + 1)

\* the join without the filter of the empty pieces
TrackId_KeepsEmptyPieces(t, a) ==
    Join(Split(Underscored(a) \o <<"_">> \o Underscored(t), 1, <<>>, <<>>), 1)

\* lines 128-132, on the lower-cased title and artist
TrackId(t, a) ==
    Join(FilterNonEmpty(Split(Underscored(a) \o <<"_">> \o Underscored(t),
                              1, <<>>, <<>>)), 1)

(***************************************************************************)
(* How a call ends, and what it did on the way.                            *)
(*   outcome   "ok" or the class of the exception raised                   *)
(*   message   str(exception), as tokens                                   *)
(*   requests  the remote requests issued, in order                        *)
(*   response  what the remote side answered (<<>>: it was never asked)    *)
(*   value     the value returned                                          *)
(*   metadata  the caller's metadata argument as the call left it          *)
(***************************************************************************)
Result(outcome, message, requests, response, value, metadata) ==
    [outcome |-> outcome, message |-> message, requests |-> requests,
     response |-> response, value |-> value, metadata |-> metadata]

Raise(class, message, requests, response, metadata) ==
    Result(class, message, requests, response, None, metadata)

(***************************************************************************)
(* The remote side.  execute() either raises (a transport or API           *)
(* exception) or returns a response object, which may or may not have an   *)
(* `error` attribute.                                                      *)
(***************************************************************************)
Row1 == Dict(<<<<"content", Str(<<"a">>)>>>>)

ErrorPayloads ==
    { Str(<<"B", "a">>), Dict(<<<<"message", Str(<<"B", "a">>)>>>>) }

Responses ==
    { [raises |-> TRUE, exc |-> "timed out", has_error |-> FALSE,
       error |-> None, data |-> None] }
    \cup { [raises |-> FALSE, exc |-> "", has_error |-> h,
            error |-> None, data |-> List(d)] :
              h \in BOOLEAN, d \in {<<>>, <<Row1>>} }
    \cup { [raises |-> FALSE, exc |-> "", has_error |-> TRUE,
            error |-> e, data |-> List(<<Row1>>)] :
              e \in ErrorPayloads \cup {Str(<<>>)} }

\* json.dumps(v) of a str, or of a dict of str
RECURSIVE JsonPairs(_, _)
JsonPairs(pairs, k) ==
    IF k > Len(pairs) THEN <<>>
    ELSE (IF k > 1 THEN <<", ">> ELSE <<>>)
         \o <<"\"", pairs[k][1], "\"", ": ", "\"">> \o pairs[k][2].val \o <<"\"">>
         \o JsonPairs(pairs, k + 1)

JsonDumps(v) ==
    IF v.type = "dict" THEN <<"{">> \o JsonPairs(v.val, 1) \o <<"}">>
    ELSE <<"\"">> \o v.val \o <<"\"">>

\* hasattr(response, 'error') and response.error
HasError(response) == response.has_error /\ Truthy(response.error)

(***************************************************************************)
(* __init__ and _test_connection                                           *)
(***************************************************************************)
CreateClient(url, key) == [kind |-> "create_client", url |-> url, key |-> key]

SelectRequest(table) ==
    [kind |-> "select", table |-> table, columns |-> "*", limit |-> 1]

\* a probe that logs the failure and returns
TestConnection_Swallows(self, response) == <<>>

\* _test_connection: the message it raises with, <<>> when it returns
TestConnection(self, response) ==
    IF response.raises
    THEN <<"Failed to verify table '", self.table_name, "': ", response.exc>>
    ELSE <<>>

\* __init__ from the environment read: `object` is <<self>> when the
\* constructor returns and <<>> when it raises; `requests` are its calls of
\* create_client and of the probe
Construct(table_name, embedding_column, content_column, metadata_columns, supabase_url, supabase_key, client_ok, response) ==
    LET self == [table_name |-> table_name,
                 embedding_column |-> embedding_column,
                 content_column |-> content_column,
                 metadata_columns |-> IF Truthy(metadata_columns)
                                      THEN metadata_columns.val ELSE <<>>]
        create == CreateClient(supabase_url, supabase_key)
        failed == TestConnection(self, response)
    IN  IF ~Truthy(supabase_url) \/ ~Truthy(supabase_key)
        THEN [object |-> <<>>,
              result |-> Raise("ValueError",
                  <<"SUPABASE_URL and SUPABASE_KEY must be set in environment variables">>,
                  <<>>, <<>>, None)]
        ELSE IF ~client_ok
        THEN [object |-> <<>>,
              result |-> Raise("SupabaseConnectionError",
                  <<"Failed to initialize Supabase client: ", "create_client failed">>,
                  <<create>>, <<>>, None)]
        ELSE IF failed # <<>>
        THEN [object |-> <<>>,
              result |-> Raise("SupabaseConnectionError",
                  <<"Failed to initialize Supabase client: ">> \o failed,
                  <<create, SelectRequest(table_name)>>, <<response>>, None)]
        ELSE [object |-> <<self>>,
              result |-> Result("ok", <<>>,
                                <<create, SelectRequest(table_name)>>,
                                <<response>>, None, None)]

(***************************************************************************)
(* add_embeddings                                                          *)
(***************************************************************************)
InsertRequest(table, records) ==
    [kind |-> "insert", table |-> table, records |-> records]

\* the id derived as soon as one of title and artist is non-empty
DeriveId_EitherSuffices(metadata, i) ==
    IF ~(Truthy(metadata) /\ Truthy(metadata.val[i]))
    THEN [raised |-> FALSE, track_id |-> None, metadata |-> metadata]
    ELSE LET t == DictGet(metadata.val[i], "title", Str(<<>>))
             a == DictGet(metadata.val[i], "artist", Str(<<>>))
         IN  IF ~IsStr(t) \/ ~IsStr(a)
             THEN [raised |-> TRUE, track_id |-> None, metadata |-> metadata]
             ELSE IF Lower(t.val) # <<>> \/ Lower(a.val) # <<>>
             THEN LET id == Str(TrackId(Lower(t.val), Lower(a.val)))
                  IN  [raised |-> FALSE, track_id |-> id,
                       metadata |-> List([metadata.val EXCEPT
                                   ![i] = DictSet(metadata.val[i], "id", id)])]
             ELSE [raised |-> FALSE, track_id |-> None, metadata |-> metadata]

\* the id written into the entry whether or not one was derived
DeriveId_WritesNone(metadata, i) ==
    IF ~(Truthy(metadata) /\ Truthy(metadata.val[i]))
    THEN [raised |-> FALSE, track_id |-> None, metadata |-> metadata]
    ELSE LET t == DictGet(metadata.val[i], "title", Str(<<>>))
             a == DictGet(metadata.val[i], "artist", Str(<<>>))
         IN  IF ~IsStr(t) \/ ~IsStr(a)
             THEN [raised |-> TRUE, track_id |-> None, metadata |-> metadata]
             ELSE LET id == IF Lower(t.val) # <<>> /\ Lower(a.val) # <<>>
                            THEN Str(TrackId(Lower(t.val), Lower(a.val)))
                            ELSE None
                  IN  [raised |-> FALSE, track_id |-> id,
                       metadata |-> List([metadata.val EXCEPT
                                   ![i] = DictSet(metadata.val[i], "id", id)])]

\* lines 122-134 for item i: the id derived (None: none), the metadata as the
\* step leaves it, and whether .lower() was called on something that has none
DeriveId(metadata, i) ==
    IF ~(Truthy(metadata) /\ Truthy(metadata.val[i]))
    THEN [raised |-> FALSE, track_id |-> None, metadata |-> metadata]
    ELSE LET t == DictGet(metadata.val[i], "title", Str(<<>>))
             a == DictGet(metadata.val[i], "artist", Str(<<>>))
         IN  IF ~IsStr(t) \/ ~IsStr(a)
             THEN [raised |-> TRUE, track_id |-> None, metadata |-> metadata]
             ELSE IF Lower(t.val) # <<>> /\ Lower(a.val) # <<>>
             THEN LET id == Str(TrackId(Lower(t.val), Lower(a.val)))
                  IN  [raised |-> FALSE, track_id |-> id,
                       metadata |-> List([metadata.val EXCEPT
                                   ![i] = DictSet(metadata.val[i], "id", id)])]
             ELSE [raised |-> FALSE, track_id |-> None, metadata |-> metadata]

\* lines 142-145: the allow-listed keys of the item's metadata, copied in order
RECURSIVE CopyColumns(_, _, _, _)
CopyColumns(record, columns, k, entry) ==
    IF k > Len(columns) THEN record
    ELSE CopyColumns(IF HasKey(entry, columns[k])
                     THEN DictSet(record, columns[k],
                                  DictGet(entry, columns[k], None))
                     ELSE record,
                     columns, k + 1, entry)

\* lines 136-145: the row of item i, its keys set in the order the code sets them
BuildRecord(self, track_id, embedding, content, metadata, i) ==
    LET literal == DictSet(DictSet(DictSet(Dict(<<>>), "id", track_id),
                                   self.embedding_column, ToList(embedding)),
                           self.content_column, content)
    IN  IF Truthy(metadata)
        THEN CopyColumns(literal, self.metadata_columns, 1, metadata.val[i])
        ELSE literal

\* lines 113-147: the loop from item i on, `records` built so far
RECURSIVE PrepareRecords(_, _, _, _, _, _)
PrepareRecords(self, embeddings, contents, metadata, i, records) ==
    IF i > Len(embeddings.val)
    THEN [outcome |-> "ok", message |-> <<>>, records |-> records,
          metadata |-> metadata]
    ELSE IF ~IsNdArray(embeddings.val[i])
    THEN [outcome |-> "ValueError",
          message |-> <<"Embedding at index ", ToString(i - 1),
                        " is not a numpy array">>,
          records |-> records, metadata |-> metadata]
    ELSE IF ~Truthy(contents.val[i]) \/ ~IsStr(contents.val[i])
    THEN [outcome |-> "ValueError",
          message |-> <<"Invalid content at index ", ToString(i - 1)>>,
          records |-> records, metadata |-> metadata]
    ELSE LET d == DeriveId(metadata, i)
         IN  IF d.raised
             THEN [outcome |-> "AttributeError",
                   message |-> <<"object has no attribute 'lower'">>,
                   records |-> records, metadata |-> d.metadata]
             ELSE PrepareRecords(self, embeddings, contents, d.metadata, i + 1,
                      Append(records,
                             BuildRecord(self, d.track_id, embeddings.val[i],
                                         contents.val[i], d.metadata, i)))

\* the insert with no look at the response's error attribute
Insert_Unchecked(self, records, response, metadata) ==
    LET requests == <<InsertRequest(self.table_name, records)>>
    IN  IF response.raises
        THEN Raise("SupabaseConnectionError",
                   <<"Failed to insert records: ", response.exc>>,
                   requests, <<response>>, metadata)
        ELSE Result("ok", <<>>, requests, <<response>>, None, metadata)

\* lines 152-166: the insert and the check of its response
Insert(self, records, response, metadata) ==
    LET requests == <<InsertRequest(self.table_name, records)>>
    IN  IF response.raises
        THEN Raise("SupabaseConnectionError",
                   <<"Failed to insert records: ", response.exc>>,
                   requests, <<response>>, metadata)
        ELSE IF HasError(response)
        THEN Raise("SupabaseConnectionError",
                   <<"Failed to insert records: ", "Supabase insert failed: ">>
                       \o JsonDumps(response.error),
                   requests, <<response>>, metadata)
        ELSE Result("ok", <<>>, requests, <<response>>, None, metadata)

\* the check with < for !=
MetadataMismatch_OnlyShorter(metadata, embeddings) ==
    Truthy(metadata) /\ Len(metadata.val) < Len(embeddings.val)

\* line 108
MetadataMismatch(metadata, embeddings) ==
    Truthy(metadata) /\ Len(metadata.val) # Len(embeddings.val)

AddEmbeddings(self, embeddings, contents, metadata, response) ==
    IF ~Truthy(embeddings)
    THEN Raise("ValueError", <<"Embeddings list cannot be empty">>,
               <<>>, <<>>, metadata)
    ELSE IF Len(embeddings.val) # Len(contents.val)
    THEN Raise("ValueError",
               <<"Number of embeddings (", ToString(Len(embeddings.val)),
                 ") must match number of contents (",
                 ToString(Len(contents.val)), ")">>,
               <<>>, <<>>, metadata)
    ELSE IF MetadataMismatch(metadata, embeddings)
    THEN Raise("ValueError",
               <<"Number of metadata items (", ToString(Len(metadata.val)),
                 ") must match number of embeddings (",
                 ToString(Len(embeddings.val)), ")">>,
               <<>>, <<>>, metadata)
    ELSE LET p == PrepareRecords(self, embeddings, contents, metadata, 1, <<>>)
         IN  IF p.outcome # "ok"
             THEN Raise(p.outcome, p.message, <<>>, <<>>, p.metadata)
             ELSE Insert(self, p.records, response, p.metadata)

(***************************************************************************)
(* search_similar.  A threshold is a whole number of tenths: 10 is 1.0.    *)
(***************************************************************************)
Tenths == 10

\* the check with < for <=
ThresholdInRange_Exclusive(similarity_threshold) ==
    0 < similarity_threshold /\ similarity_threshold < 1 * Tenths

\* line 200: 0 <= similarity_threshold <= 1
ThresholdInRange(similarity_threshold) ==
    0 <= similarity_threshold /\ similarity_threshold <= 1 * Tenths

RpcRequest(fn, params) == [kind |-> "rpc", fn |-> fn, params |-> params]

SearchSimilar(self, query_embedding, num_results, similarity_threshold, response) ==
    IF ~IsNdArray(query_embedding)
    THEN Raise("ValueError", <<"query_embedding must be a numpy array">>,
               <<>>, <<>>, None)
    ELSE IF num_results < 1
    THEN Raise("ValueError", <<"num_results must be positive">>,
               <<>>, <<>>, None)
    ELSE IF ~ThresholdInRange(similarity_threshold)
    THEN Raise("ValueError", <<"similarity_threshold must be between 0 and 1">>,
               <<>>, <<>>, None)
    ELSE LET requests == <<RpcRequest("match_embeddings",
                 [query_embedding |-> ToList(query_embedding),
                  match_threshold |-> similarity_threshold,
                  match_count |-> num_results])>>
         IN  IF response.raises
             THEN Raise("SupabaseConnectionError",
                        <<"Error during similarity search: ", response.exc>>,
                        requests, <<response>>, None)
             ELSE IF HasError(response)
             THEN Raise("SupabaseConnectionError",
                        <<"Error during similarity search: ",
                          "Supabase similarity search failed: ">>
                            \o JsonDumps(response.error),
                        requests, <<response>>, None)
             ELSE Result("ok", <<>>, requests, <<response>>, response.data, None)

(***************************************************************************)
(* delete_embeddings                                                       *)
(***************************************************************************)
DeleteRequest(table, filters) ==
    [kind |-> "delete", table |-> table, filters |-> filters]

\* each eq applied to a fresh delete() instead of the query built so far
ApplyFilters_LastOnly(query, filter_dict, k) ==
    IF filter_dict.val = <<>> THEN query
    ELSE <<[op |-> "eq",
            column |-> filter_dict.val[Len(filter_dict.val)][1],
            value |-> filter_dict.val[Len(filter_dict.val)][2]]>>

\* lines 255-256: one eq(column, value) per item of the dict, in its order
RECURSIVE ApplyFilters(_, _, _)
ApplyFilters(query, filter_dict, k) ==
    IF k > Len(filter_dict.val) THEN query
    ELSE ApplyFilters(Append(query, [op |-> "eq",
                                     column |-> filter_dict.val[k][1],
                                     value |-> filter_dict.val[k][2]]),
                      filter_dict, k + 1)

DeleteEmbeddings(self, filter_dict, response) ==
    IF ~Truthy(filter_dict)
    THEN Raise("ValueError", <<"filter_dict cannot be empty">>, <<>>, <<>>, None)
    ELSE LET requests == <<DeleteRequest(self.table_name,
                                         ApplyFilters(<<>>, filter_dict, 1))>>
         IN  IF response.raises
             THEN Raise("SupabaseConnectionError",
                        <<"Error during delete operation: ", response.exc>>,
                        requests, <<response>>, None)
             ELSE IF HasError(response)
             THEN Raise("SupabaseConnectionError",
                        <<"Error during delete operation: ",
                          "Supabase delete failed: ">>
                            \o JsonDumps(response.error),
                        requests, <<response>>, None)
             ELSE Result("ok", <<>>, requests, <<response>>, None, None)

(***************************************************************************)
(* What callers pass.                                                      *)
(***************************************************************************)
SeqsUpTo(S, n) == UNION {[1..k -> S] : k \in 0..n}

EmbeddingValues == {NdArray(<<1, 2>>), List(<<1, 2>>)}

ContentValues == {Str(<<"a">>), Str(<<"B">>), Str(<<>>), PyInt(7)}

Entry(pairs) == Dict(pairs)

MetadataEntries ==
    { Entry(<<>>),
      Entry(<<<<"title", Str(<<"B", "!">>)>>, <<"artist", Str(<<"_", "a">>)>>>>),
      Entry(<<<<"title", Str(<<>>)>>, <<"artist", Str(<<"a">>)>>>>),
      Entry(<<<<"title", None>>, <<"artist", Str(<<"a">>)>>>>),
      Entry(<<<<"artist", Str(<<"a">>)>>, <<"id", Str(<<"B">>)>>>>),
      Entry(<<<<"title", Str(<<"a">>)>>, <<"artist", Str(<<"B">>)>>,
              <<"id", Str(<<"B">>)>>, <<"content", Str(<<"!">>)>>>>) }

EmbeddingsArgs == {List(x) : x \in SeqsUpTo(EmbeddingValues, MaxItems)}

ContentsArgs == {List(x) : x \in SeqsUpTo(ContentValues, MaxItems)}

MetadataArgs == {None} \cup {List(x) : x \in SeqsUpTo(MetadataEntries, MaxItems)}

QueryValues == {NdArray(<<1, 2>>), List(<<1, 2>>)}

NumResultsValues == -1..2

ThresholdValues == {-1, 0, 5, 10, 11, 15}

FilterArgs ==
    { Dict(<<>>),
      Dict(<<<<"id", Str(<<"a">>)>>>>),
      Dict(<<<<"title", Str(<<"B">>)>>>>),
      Dict(<<<<"id", Str(<<"a">>)>>, <<"title", Str(<<"B">>)>>>>),
      Dict(<<<<"title", Str(<<"B">>)>>, <<"id", Str(<<>>)>>>>) }

TableNames == {"song_embeddings"}

EmbeddingColumns == {"embedding"}

ContentColumns == {"content", "text"}

MetadataColumnsArgs == {None, List(<<>>), List(<<"title", "id", "content">>)}

\* os.getenv(name): None when unset
EnvValues == {None, Str(<<>>), Str(<<"a">>)}

(***************************************************************************)
(* The state machine.                                                      *)
(***************************************************************************)
\* the response of a call that never asks the remote side: never looked at
Unasked == [raises |-> FALSE, exc |-> "", has_error |-> FALSE,
            error |-> None, data |-> None]

\* the answers the remote side may give to a call that issues `requests`
Answers(requests) == IF requests = <<>> THEN {Unasked} ELSE Responses

NoCall == [op |-> "none", args |-> <<>>,
           r |-> Result("ok", <<>>, <<>>, <<>>, None, None)]

Init ==
    /\ gateway = <<>>
    /\ probed = FALSE
    /\ pc = "idle"
    /\ last = NoCall

Construction ==
    /\ pc = "idle"
    /\ gateway = <<>>
    /\ \E table_name \in TableNames, embedding_column \in EmbeddingColumns,
          content_column \in ContentColumns,
          metadata_columns \in MetadataColumnsArgs,
          supabase_url \in EnvValues, supabase_key \in EnvValues,
          client_ok \in BOOLEAN, response \in Responses :
          LET c == Construct(table_name, embedding_column, content_column,
                             metadata_columns, supabase_url, supabase_key,
                             client_ok, response)
          IN  /\ gateway' = c.object
              /\ probed' = (/\ \E k \in 1..Len(c.result.requests) :
                                   c.result.requests[k].kind = "select"
                             /\ ~response.raises)
              /\ last' = [op |-> "__init__",
                          args |-> [supabase_url |-> supabase_url,
                                    supabase_key |-> supabase_key,
                                    client_ok |-> client_ok],
                          r |-> c.result]
    /\ pc' = "returned"

CallAddEmbeddings ==
    /\ pc = "idle"
    /\ gateway # <<>>
    /\ \E embeddings \in EmbeddingsArgs, contents \in ContentsArgs,
          metadata \in MetadataArgs :
       \E response \in Answers(AddEmbeddings(gateway[1], embeddings, contents,
                                             metadata, Unasked).requests) :
          last' = [op |-> "add_embeddings",
                   args |-> [embeddings |-> embeddings, contents |-> contents,
                             metadata |-> metadata],
                   r |-> AddEmbeddings(gateway[1], embeddings, contents,
                                       metadata, response)]
    /\ pc' = "returned"
    /\ UNCHANGED <<gateway, probed>>

CallSearchSimilar ==
    /\ pc = "idle"
    /\ gateway # <<>>
    /\ \E query_embedding \in QueryValues, num_results \in NumResultsValues,
          similarity_threshold \in ThresholdValues :
       \E response \in Answers(SearchSimilar(gateway[1], query_embedding,
                        num_results, similarity_threshold, Unasked).requests) :
          last' = [op |-> "search_similar",
                   args |-> [query_embedding |-> query_embedding,
                             num_results |-> num_results,
                             similarity_threshold |-> similarity_threshold],
                   r |-> SearchSimilar(gateway[1], query_embedding, num_results,
                                       similarity_threshold, response)]
    /\ pc' = "returned"
    /\ UNCHANGED <<gateway, probed>>

CallDeleteEmbeddings ==
    /\ pc = "idle"
    /\ gateway # <<>>
    /\ \E filter_dict \in FilterArgs :
       \E response \in Answers(DeleteEmbeddings(gateway[1], filter_dict,
                                                Unasked).requests) :
          last' = [op |-> "delete_embeddings",
                   args |-> [filter_dict |-> filter_dict],
                   r |-> DeleteEmbeddings(gateway[1], filter_dict, response)]
    /\ pc' = "returned"
    /\ UNCHANGED <<gateway, probed>>

\* the caller is done with the outcome of the call and goes on
Continue ==
    /\ pc = "returned"
    /\ pc' = "idle"
    /\ last' = NoCall
    /\ UNCHANGED <<gateway, probed>>

Next ==
    \/ Construction
    \/ CallAddEmbeddings
    \/ CallSearchSimilar
    \/ CallDeleteEmbeddings
    \/ Continue

Spec == Init /\ [][Next]_vars

(***************************************************************************)
(* SpecId: a constructed gateway on which add_embeddings is called with    *)
(* one valid item whose metadata carries every title and artist of up to   *)
(* MaxStrLen characters.                                                   *)
(***************************************************************************)
Strings == SeqsUpTo(Chars, MaxStrLen)

IdSelves ==
    { [table_name |-> "song_embeddings", embedding_column |-> "embedding",
       content_column |-> "content", metadata_columns |-> columns] :
         columns \in {<<>>, <<"title", "id", "content">>} }

OtherKeys == { <<>>, <<<<"id", Str(<<"B">>)>>>> }

Accepted == [raises |-> FALSE, exc |-> "", has_error |-> FALSE,
             error |-> None, data |-> List(<<>>)]

InitId ==
    /\ gateway \in {<<self>> : self \in IdSelves}
    /\ probed = TRUE
    /\ pc = "idle"
    /\ last = NoCall

CallAddTitled ==
    /\ pc = "idle"
    /\ gateway # <<>>
    /\ \E t \in Strings, a \in Strings, other \in OtherKeys :
          LET embeddings == List(<<NdArray(<<1, 2>>)>>)
              contents == List(<<Str(<<"a">>)>>)
              metadata == List(<<Entry(other \o <<<<"title", Str(t)>>,
                                                  <<"artist", Str(a)>>>>)>>)
          IN  last' = [op |-> "add_embeddings",
                       args |-> [embeddings |-> embeddings,
                                 contents |-> contents, metadata |-> metadata],
                       r |-> AddEmbeddings(gateway[1], embeddings, contents,
                                           metadata, Accepted)]
    /\ pc' = "returned"
    /\ UNCHANGED <<gateway, probed>>

NextId ==
    \/ CallAddTitled
    \/ Continue

SpecId == InitId /\ [][NextId]_vars

(***************************************************************************)
(* Reading a finished call.                                                *)
(***************************************************************************)
Called(op) == pc = "returned" /\ last.op = op

\* the one insert request of the call, when it issued one
Rows == last.r.requests[1].records

\* the metadata entry has a title and an artist that are non-empty strings
Titled(entry) ==
    /\ HasKey(entry, "title") /\ HasKey(entry, "artist")
    /\ IsStr(DictGet(entry, "title", None)) /\ IsStr(DictGet(entry, "artist", None))
    /\ DictGet(entry, "title", None).val # <<>>
    /\ DictGet(entry, "artist", None).val # <<>>

\* tokens occurs in message, contiguously
Contains(message, tokens) ==
    \E k \in 0..(Len(message) - Len(tokens)) :
        \A j \in 1..Len(tokens) : message[k + j] = tokens[j]

\* s read left to right, each alphanumeric kept, each run of other characters
\* between two alphanumerics replaced by one underscore, the runs at the ends
\* dropped
RECURSIVE Collapsed(_, _, _, _)
Collapsed(s, k, out, gap) ==
    IF k > Len(s) THEN out
    ELSE IF ~IsAlnum(s[k]) THEN Collapsed(s, k + 1, out, TRUE)
    ELSE Collapsed(s, k + 1,
                   IF gap /\ out # <<>> THEN out \o <<"_", s[k]>>
                   ELSE Append(out, s[k]),
                   FALSE)

LowerAlnum == {"a", "b"}

WellFormedId(id) ==
    /\ \A k \in 1..Len(id) : id[k] \in LowerAlnum \cup {"_"}
    /\ \A k \in 1..(Len(id) - 1) : ~(id[k] = "_" /\ id[k + 1] = "_")
    /\ id # <<>> => (id[1] # "_" /\ id[Len(id)] # "_")

(***************************************************************************)
(* C3: for a metadata entry whose title and artist are both non-empty, the *)
(* id add_embeddings derives (the one it writes into the entry and into    *)
(* the row) is the lower-cased artist, an underscore and the lower-cased   *)
(* title with every run of non-alphanumerics collapsed to one underscore:  *)
(* it holds only lower-case alphanumerics and underscores, no two          *)
(* underscores in a row, none at either end, and is determined by the      *)
(* title and the artist alone.                                             *)
(***************************************************************************)
C3_DerivedIdIsCollapsed ==
    (Called("add_embeddings") /\ last.r.requests # <<>>
        /\ Truthy(last.args.metadata)) =>
    \A i \in 1..Len(last.args.metadata.val) :
        LET entry == last.args.metadata.val[i]
            t == DictGet(entry, "title", None).val
            a == DictGet(entry, "artist", None).val
            written == DictGet(last.r.metadata.val[i], "id", None)
            sent == DictGet(Rows[i], "id", None)
        IN  Titled(entry) =>
              /\ IsStr(written)
              /\ WellFormedId(written.val)
              /\ written.val = Collapsed(Lower(a) \o <<"_">> \o Lower(t),
                                         1, <<>>, FALSE)
              /\ sent = written

C3_Witness ==
    /\ Called("add_embeddings") /\ last.r.requests # <<>>
    /\ Titled(last.args.metadata.val[1])
    /\ DictGet(last.args.metadata.val[1], "title", None).val = <<"B", "!", "a">>
    /\ DictGet(last.args.metadata.val[1], "artist", None).val = <<"_", "a", "!">>
    /\ DictGet(Rows[1], "id", None) = Str(<<"a", "_", "b", "_", "a">>)

(***************************************************************************)
(* The three operations of a constructed gateway.                          *)
(***************************************************************************)
Operations == {"add_embeddings", "search_similar", "delete_embeddings"}

CalledOperation == pc = "returned" /\ last.op \in Operations

\* the remote side was asked and answered with a response (no exception)
\* whose error attribute is truthy
ErrorShaped ==
    /\ last.r.response # <<>>
    /\ ~last.r.response[1].raises
    /\ last.r.response[1].has_error
    /\ Truthy(last.r.response[1].error)

\* the remote side was asked and signalled nothing
Unsignalled ==
    /\ last.r.response # <<>>
    /\ ~last.r.response[1].raises
    /\ ~(last.r.response[1].has_error /\ Truthy(last.r.response[1].error))

(***************************************************************************)
(* C1: an add_embeddings call whose inputs pass validation (non-empty,     *)
(* equal lengths, every embedding an array, every content a non-empty      *)
(* string) issues exactly one insert, of one row per item in input order,  *)
(* row i holding contents[i] in the content column and embeddings[i] as a  *)
(* plain list in the embedding column, whatever the configured columns and *)
(* allow-list are.                                                         *)
(***************************************************************************)
InputsPassValidation ==
    LET embeddings == last.args.embeddings
        contents == last.args.contents
        metadata == last.args.metadata
    IN  /\ embeddings.val # <<>>
        /\ Len(embeddings.val) = Len(contents.val)
        /\ metadata # None => Len(metadata.val) = Len(embeddings.val)
        /\ \A i \in 1..Len(embeddings.val) : IsNdArray(embeddings.val[i])
        /\ \A i \in 1..Len(contents.val) :
              IsStr(contents.val[i]) /\ contents.val[i].val # <<>>

C1_OneBatchedInsert ==
    (Called("add_embeddings") /\ InputsPassValidation) =>
        /\ Len(last.r.requests) = 1
        /\ last.r.requests[1].kind = "insert"
        /\ Len(Rows) = Len(last.args.embeddings.val)
        /\ \A i \in 1..Len(Rows) :
              /\ DictGet(Rows[i], gateway[1].content_column, None)
                    = last.args.contents.val[i]
              /\ DictGet(Rows[i], gateway[1].embedding_column, None)
                    = List(last.args.embeddings.val[i].val)

(***************************************************************************)
(* C2: a call of add_embeddings, search_similar or delete_embeddings       *)
(* issues no remote request when it raises a validation error and exactly  *)
(* one otherwise; none issues a second request after a remote failure.     *)
(***************************************************************************)
C2_RequestsPerCall ==
    CalledOperation =>
        IF last.r.outcome = "ValueError"
        THEN last.r.requests = <<>>
        ELSE Len(last.r.requests) = 1

(***************************************************************************)
(* C4 as claimed: the row of an item whose metadata is absent, or lacks a  *)
(* non-empty title or a non-empty artist, has no id field.                 *)
(***************************************************************************)
Untitled(i) ==
    \/ ~Truthy(last.args.metadata)
    \/ ~Titled(last.args.metadata.val[i])

C4_NoIdField ==
    (Called("add_embeddings") /\ last.r.requests # <<>>) =>
        \A i \in 1..Len(Rows) : Untitled(i) => ~HasKey(Rows[i], "id")

(***************************************************************************)
(* C4 as amended: with neither the embedding nor the content column named  *)
(* id, the row of such an item always has an id field, and it holds None   *)
(* (no id is derived), unless id is on the allow-list and the item's       *)
(* metadata entry has an id key of its own: then it holds that value.      *)
(***************************************************************************)
C4_IdIsNoneOrTheCallersOwn ==
    (Called("add_embeddings") /\ last.r.requests # <<>>) =>
        \A i \in 1..Len(Rows) : Untitled(i) =>
            /\ HasKey(Rows[i], "id")
            /\ DictGet(Rows[i], "id", Str(<<>>)) =
                 IF /\ Truthy(last.args.metadata)
                    /\ HasKey(last.args.metadata.val[i], "id")
                    /\ \E k \in 1..Len(gateway[1].metadata_columns) :
                          gateway[1].metadata_columns[k] = "id"
                 THEN DictGet(last.args.metadata.val[i], "id", Str(<<>>))
                 ELSE None

C4_Witness ==
    /\ Called("add_embeddings") /\ last.r.requests # <<>>
    /\ Len(Rows) = 2
    /\ Truthy(last.args.metadata)
    /\ last.args.metadata.val[1] = Entry(<<>>)
    /\ DictGet(Rows[1], "id", Str(<<>>)) = None
    /\ HasKey(last.args.metadata.val[2], "id")
    /\ Untitled(2)
    /\ DictGet(Rows[2], "id", None) = Str(<<"B">>)

(***************************************************************************)
(* C5: when the remote call of add_embeddings, search_similar or           *)
(* delete_embeddings returns a response with a truthy error attribute, the *)
(* operation raises SupabaseConnectionError, with the serialized error     *)
(* payload in its message.                                                 *)
(***************************************************************************)
C5_ErrorResponseRaises ==
    (CalledOperation /\ ErrorShaped) =>
        /\ last.r.outcome = "SupabaseConnectionError"
        /\ Contains(last.r.message, JsonDumps(last.r.response[1].error))

C5_Witness ==
    /\ Called("delete_embeddings")
    /\ ErrorShaped
    /\ last.r.response[1].error.type = "dict"
    /\ last.r.outcome = "SupabaseConnectionError"
    /\ Contains(last.r.message,
                <<"{", "\"", "message", "\"", ": ", "\"", "B", "a", "\"", "}">>)

(***************************************************************************)
(* C6 as claimed: add_embeddings raises a validation error whenever        *)
(* embeddings is empty, whenever the lengths of embeddings and contents    *)
(* differ, and whenever a metadata list is passed (anything but None, the  *)
(* empty list too) whose length differs from that of embeddings.           *)
(***************************************************************************)
C6_AnyMetadataListIsMeasured ==
    (/\ Called("add_embeddings")
     /\ \/ last.args.embeddings.val = <<>>
        \/ Len(last.args.embeddings.val) # Len(last.args.contents.val)
        \/ /\ last.args.metadata # None
           /\ Len(last.args.metadata.val) # Len(last.args.embeddings.val))
    => last.r.outcome = "ValueError"

(***************************************************************************)
(* C6 as amended: ... and whenever a non-empty metadata list is passed     *)
(* whose length differs from that of embeddings (an empty list is treated  *)
(* as no metadata).                                                        *)
(***************************************************************************)
C6_NonEmptyMetadataIsMeasured ==
    (/\ Called("add_embeddings")
     /\ \/ last.args.embeddings.val = <<>>
        \/ Len(last.args.embeddings.val) # Len(last.args.contents.val)
        \/ /\ last.args.metadata # None
           /\ last.args.metadata.val # <<>>
           /\ Len(last.args.metadata.val) # Len(last.args.embeddings.val))
    => last.r.outcome = "ValueError"

C6_Witness ==
    /\ Called("add_embeddings")
    /\ Len(last.args.embeddings.val) = 1
    /\ Len(last.args.contents.val) = 1
    /\ last.args.metadata # None
    /\ Len(last.args.metadata.val) = 2
    /\ last.r.outcome = "ValueError"
    /\ last.r.message[1] = "Number of metadata items ("

(***************************************************************************)
(* C7: search_similar raises a validation error exactly when the query is  *)
(* not an array, num_results is below 1 or the threshold is outside        *)
(* [0, 1]; num_results = 1 and the thresholds 0 and 1 are accepted; an     *)
(* accepted call passes the embedding (as a plain list), the threshold and *)
(* the count unchanged to match_embeddings, and returns the result set of  *)
(* the response as it is.                                                  *)
(***************************************************************************)
C7_SearchValidation ==
    Called("search_similar") =>
        LET q == last.args.query_embedding
            n == last.args.num_results
            t == last.args.similarity_threshold
        IN  /\ last.r.outcome = "ValueError"
                 <=> (q.type # "ndarray" \/ n < 1 \/ t < 0 \/ t > Tenths)
            /\ (q.type = "ndarray" /\ n = 1 /\ t \in {0, Tenths})
                 => last.r.outcome # "ValueError"
            /\ last.r.outcome # "ValueError" =>
                 last.r.requests =
                   << [kind |-> "rpc", fn |-> "match_embeddings",
                       params |-> [query_embedding |-> List(q.val),
                                   match_threshold |-> t,
                                   match_count |-> n]] >>
            /\ (last.r.outcome # "ValueError" /\ Unsignalled)
                 => (/\ last.r.outcome = "ok"
                     /\ last.r.value = last.r.response[1].data)
            /\ last.r.outcome = "ok" => Unsignalled

C7_Witness ==
    /\ Called("search_similar")
    /\ last.args.num_results = 1
    /\ last.args.similarity_threshold = Tenths
    /\ last.r.outcome = "ok"
    /\ last.r.value = List(<<Row1>>)

(***************************************************************************)
(* C8: delete_embeddings raises a validation error for an empty filter;    *)
(* for a non-empty one it issues exactly one delete request on the         *)
(* configured table, with one equality constraint per key of the filter    *)
(* (column = value) and none for any other column, and returns None when   *)
(* the remote side signals no error.                                       *)
(***************************************************************************)
C8_DeleteByFilter ==
    Called("delete_embeddings") =>
        LET f == last.args.filter_dict
        IN  /\ f.val = <<>> =>
                 (last.r.outcome = "ValueError" /\ last.r.requests = <<>>)
            /\ f.val # <<>> =>
                 /\ Len(last.r.requests) = 1
                 /\ last.r.requests[1].kind = "delete"
                 /\ last.r.requests[1].table = gateway[1].table_name
                 /\ LET c == last.r.requests[1].filters
                    IN  /\ Len(c) = Cardinality(Keys(f))
                        /\ \A key \in Keys(f) :
                              \E k \in 1..Len(c) :
                                 c[k] = [op |-> "eq", column |-> key,
                                         value |-> DictGet(f, key, None)]
                        /\ \A k \in 1..Len(c) : c[k].column \in Keys(f)
                 /\ Unsignalled =>
                      (last.r.outcome = "ok" /\ last.r.value = None)

C8_Witness ==
    /\ Called("delete_embeddings")
    /\ Len(last.args.filter_dict.val) = 2
    /\ last.r.outcome = "ok"
    /\ Len(last.r.requests[1].filters) = 2

(***************************************************************************)
(* C9: a construction without a URL or without a key raises before a       *)
(* client is created or a request issued; one whose client creation or     *)
(* probe raises ends with SupabaseConnectionError; neither returns a       *)
(* gateway, so that no operation runs on a gateway whose construction did  *)
(* not complete the probe.                                                 *)
(***************************************************************************)
C9_ConstructionFailsClosed ==
    /\ Called("__init__") =>
          LET configured == /\ Truthy(last.args.supabase_url)
                            /\ Truthy(last.args.supabase_key)
          IN  /\ ~configured =>
                   /\ last.r.outcome = "ValueError"
                   /\ last.r.requests = <<>>
                   /\ gateway = <<>>
              /\ (configured /\ ~last.args.client_ok) =>
                   /\ last.r.outcome = "SupabaseConnectionError"
                   /\ gateway = <<>>
              /\ (configured /\ last.args.client_ok) =>
                   /\ last.r.response # <<>>
                   /\ last.r.response[1].raises =>
                        /\ last.r.outcome = "SupabaseConnectionError"
                        /\ gateway = <<>>
              /\ last.r.outcome # "ok" => gateway = <<>>
    /\ gateway # <<>> => probed
    /\ last.op \in Operations => (gateway # <<>> /\ probed)

C9_Witness ==
    /\ Called("__init__")
    /\ last.r.outcome = "SupabaseConnectionError"
    /\ Len(last.r.requests) = 2
    /\ last.r.response[1].raises
    /\ gateway = <<>>

(***************************************************************************)
(* C10: however add_embeddings ends, all it changes in the metadata it was *)
(* passed is the id key of the entries it processed that have a non-empty  *)
(* title and artist, which it sets to the derived id; every other key and  *)
(* every other entry is as it was.  An item is processed when the lists    *)
(* passed the length checks and no item up to it is a bad one.             *)
(***************************************************************************)
OnlyIdSet(before, after) ==
    /\ Keys(after) = Keys(before) \cup {"id"}
    /\ \A key \in Keys(before) \ {"id"} :
          DictGet(after, key, None) = DictGet(before, key, None)
    /\ DictGet(after, "id", None) =
          Str(Collapsed(Lower(DictGet(before, "artist", None).val) \o <<"_">>
                          \o Lower(DictGet(before, "title", None).val),
                        1, <<>>, FALSE))

\* item j is one the loop does not abort on
GoodItem(j) ==
    /\ last.args.embeddings.val[j].type = "ndarray"
    /\ last.args.contents.val[j].type = "str"
    /\ last.args.contents.val[j].val # <<>>
    /\ (Truthy(last.args.metadata) /\ last.args.metadata.val[j].val # <<>>) =>
          /\ DictGet(last.args.metadata.val[j], "title", Str(<<>>)).type = "str"
          /\ DictGet(last.args.metadata.val[j], "artist", Str(<<>>)).type = "str"

Processed(i) ==
    /\ last.args.embeddings.val # <<>>
    /\ Len(last.args.embeddings.val) = Len(last.args.contents.val)
    /\ Len(last.args.embeddings.val) = Len(last.args.metadata.val)
    /\ \A j \in 1..i : GoodItem(j)

C10_OnlyTheIdIsWritten ==
    Called("add_embeddings") =>
        LET before == last.args.metadata
            after == last.r.metadata
        IN  IF ~Truthy(before) THEN after = before
            ELSE /\ after.type = "list"
                 /\ Len(after.val) = Len(before.val)
                 /\ \A i \in 1..Len(before.val) :
                       IF Processed(i) /\ Titled(before.val[i])
                       THEN OnlyIdSet(before.val[i], after.val[i])
                       ELSE after.val[i] = before.val[i]

C10_Witness ==
    /\ Called("add_embeddings")
    /\ last.r.outcome = "ValueError"
    /\ last.r.message = <<"Invalid content at index ", "1">>
    /\ Truthy(last.args.metadata)
    /\ Titled(last.args.metadata.val[1])
    /\ ~HasKey(last.args.metadata.val[1], "id")
    /\ DictGet(last.r.metadata.val[1], "id", None) = Str(<<"a", "_", "b">>)
    /\ last.r.metadata.val[2] = last.args.metadata.val[2]

====
